---- MODULE Spec2Model ----
(***************************************************************************)
(* AlasdairF/Cache: fixed-capacity, integer-indexed caches (Bytes and      *)
(* Interface) and the background cleaner that purges over-budget caches.   *)
(* Every access of shared memory is one step of the calling goroutine, so  *)
(* that goroutines interleave exactly where the Go code can be preempted.  *)
(***************************************************************************)
EXTENDS Integers, Sequences, FiniteSets

\* ------------------------------------------------------------- bounds
NumCaches == 2
MaxCachesAlone == 1
NumSlots == 2
MaxCalls == 3
MaxSweeps == 1
MaxTicks == 2
MaxRacing == 2
MaxRaceCalls == 2
MaxSetupCalls == 1
MaxRegCalls == 2

\* ------------------------------------------------- program constants
BytesPerMegabyte == 1048576
UnitsPerMegabyte == 1024
FiveDays == 432000
OneDay == 86400
OneHour == 3600
TenMinutes == 600
Everything == 3600
sleeptime == 60

\* ------------------------------------------------------------- inputs
Apps == {"a1", "a2"}
Cleaner == "cleaner"
Threads == Apps \cup {Cleaner}
NoThread == "none"
Nil == 0
CacheIds == 1..NumCaches
NoCache == Nil
Ids == -1..NumSlots
InRange == 0..(NumSlots - 1)
Megabytes == {0, 1}
NilPayload == [tag |-> "nil", len |-> 0]
\* A payload is what Get hands back (tag) and its size: len(p) of a []byte, or the
\* size the caller states when it stores the value in an Interface cache.
BytePayloads == {[tag |-> "p", len |-> 600000], [tag |-> "q", len |-> 500000]}
OpaquePayloads == {[tag |-> "p", len |-> 600], [tag |-> "q", len |-> 500]}
Deltas == {600}
PurgeAges == {0 - Everything, 0, TenMinutes}
EntryIds == 1..(NumCaches * NumSlots + Cardinality(Threads))

VARIABLES
  caches1,       \* var caches1 []*Bytes
  caches2,       \* var caches2 []*Interface
  cachesMutex1,  \* holder of cachesMutex1, or NoThread
  cachesMutex2,  \* holder of cachesMutex2, or NoThread
  kind,          \* per cache: "none" (not constructed), "Bytes" or "Interface"
  vals,          \* per cache: the backing array of c.vals (entry pointers, Nil = nil)
  valsLen,       \* per cache: len(c.vals); 0 once Close has set c.vals = nil
  size,          \* per cache: c.size
  mem,           \* per cache: c.mem
  max,           \* per cache: c.max
  heap,          \* the entries allocated and still referenced
  clock,         \* time.Now().Unix()
  pc,            \* per goroutine: where it stands
  frame,         \* per goroutine: the arguments and locals of its call
  sw,            \* the cleaner's locals
  panicked,      \* a runtime panic has ended the process
  calls,         \* calls of cache operations started so far
  sweeps,        \* cleaner rounds started so far
  ticks,         \* clock advances so far
  sched          \* "seq": calls never overlap; "conc": goroutines interleave

vars == <<caches1, caches2, cachesMutex1, cachesMutex2, kind, vals, valsLen, size,
          mem, max, heap, clock, pc, frame, sw, panicked, calls, sweeps, ticks, sched>>

\* ------------------------------------------------------------ helpers
NoSlot == [occ |-> FALSE, data |-> NilPayload, lastAccess |-> 0, size |-> 0]

\* The size Purge and Replace charge an entry with: len(item.data) in Bytes,
\* item.size in Interface.
EntrySize(k, e) == IF k = "Bytes" THEN e.data.len ELSE e.size

\* What slot i of cache c holds, by value.
SlotVal(c, i) ==
  IF i >= valsLen[c] \/ vals[c][i] = Nil THEN NoSlot
  ELSE [occ |-> TRUE, data |-> heap[vals[c][i]].data,
        lastAccess |-> heap[vals[c][i]].lastAccess,
        size |-> EntrySize(kind[c], heap[vals[c][i]])]

Slots(c) == [i \in 0..(NumSlots - 1) |-> SlotVal(c, i)]

Snapshot(c) == [mem |-> mem[c], max |-> max[c], slots |-> Slots(c)]

NoSnapshot == [mem |-> 0, max |-> 0, slots |-> [i \in 0..(NumSlots - 1) |-> NoSlot]]

IdleFrame ==
  [op |-> "none", c |-> NoCache, id |-> 0, p |-> NilPayload, size |-> 0,
   item |-> Nil, tim |-> 0, memdif |-> 0, i |-> 0, n |-> 0, olderThan |-> 0,
   found |-> FALSE, res |-> NilPayload, pre |-> NoSnapshot]

IdleSw == [snap |-> <<>>, k |-> 0, reg |-> 0, stage |-> 0, m |-> 0, over |-> FALSE,
           start |-> 0, pre |-> NoSnapshot]

\* Entries some slot or some goroutine's local still points to; the rest is garbage.
Referenced(v, f) ==
  {v[c][i] : c \in CacheIds, i \in 0..(NumSlots - 1)} \cup {f[t].item : t \in Threads}

Collect(h, v, f) == [e \in (DOMAIN h) \cap Referenced(v, f) |-> h[e]]

NewEntryId == CHOOSE e \in EntryIds \ DOMAIN heap : \A o \in EntryIds \ DOMAIN heap : e <= o

Put(h, e, rec) == [x \in (DOMAIN h) \cup {e} |-> IF x = e THEN rec ELSE h[x]]

Quiet(t) == \A u \in Threads \ {t} : pc[u] = IF u = Cleaner THEN "sleep" ELSE "idle"

\* A goroutine may start a call; under "seq" only when nothing else is running.
\* The goroutines inside a call or a cleaner round.
Busy == {u \in Threads : pc[u] # IF u = Cleaner THEN "sleep" ELSE "idle"}

\* Under "seq" one goroutine calls and nothing else runs meanwhile; under "conc" at most
\* MaxRacing goroutines are busy at once; under "setup" the first MaxSetupCalls calls run
\* alone, the next one begins when they are over, and the rest race it; under "reg"
\* goroutine a1 and the cleaner take turns as under "seq", and goroutine a2 constructs a
\* cache while the cleaner is at work.
MayStart(t) ==
  CASE sched = "seq" -> t \in {"a1", Cleaner} /\ Quiet(t)
    [] sched = "reg" -> IF t = "a2" THEN pc["a1"] = "idle" /\ pc[Cleaner] # "sleep"
                        ELSE Quiet(t)
    [] sched = "setup" -> /\ Cardinality(Busy) < MaxRacing
                          /\ calls < MaxSetupCalls => t = "a1"
                          /\ calls <= MaxSetupCalls => Quiet(t)
    [] OTHER -> Cardinality(Busy) < MaxRacing

CanStart(t) ==
  /\ ~panicked
  /\ pc[t] = "idle"
  /\ MayStart(t)

\* The calls a behaviour may hold.
CallLimit ==
  CASE sched = "seq" -> MaxCalls
    [] sched = "setup" -> MaxSetupCalls + MaxRaceCalls
    [] sched = "reg" -> MaxRegCalls
    [] OTHER -> MaxRaceCalls

CanCall(t) ==
  /\ CanStart(t)
  /\ calls < CallLimit
  /\ sched = "reg" => t = "a1"

\* The caches a behaviour may construct.
CacheLimit == IF sched = "reg" THEN NumCaches ELSE MaxCachesAlone

\* The indices calls are made with: racing calls are given indices of the table only.
CallIds == IF sched = "seq" THEN Ids ELSE InRange

\* The caches whose constructor has returned.
Usable(c) == kind[c] # "none" /\ \A t \in Apps : ~(frame[t].op = "New" /\ frame[t].c = c)

Running(t, at) == ~panicked /\ pc[t] = at

Goto(t, at) == pc' = [pc EXCEPT ![t] = at]

\* ---------------------------------------------------------------- Init
Init ==
  /\ caches1 = <<>>
  /\ caches2 = <<>>
  /\ cachesMutex1 = NoThread
  /\ cachesMutex2 = NoThread
  /\ kind = [c \in CacheIds |-> "none"]
  /\ vals = [c \in CacheIds |-> [i \in 0..(NumSlots - 1) |-> Nil]]
  /\ valsLen = [c \in CacheIds |-> 0]
  /\ size = [c \in CacheIds |-> 0]
  /\ mem = [c \in CacheIds |-> 0]
  /\ max = [c \in CacheIds |-> 0]
  /\ heap = [e \in {} |-> NoSlot]
  /\ clock = 0
  /\ pc = [t \in Threads |-> IF t = Cleaner THEN "sleep" ELSE "idle"]
  /\ frame = [t \in Threads |-> IdleFrame]
  /\ sw = IdleSw
  /\ panicked = FALSE
  /\ calls = 0
  /\ sweeps = 0
  /\ ticks = 0
  /\ sched \in {"seq", "conc", "setup", "reg"}

\* Time passes. A call of an application goroutine reads the clock at most once, so
\* under "seq" a tick inside such a call is a tick before or after it; under "setup" the
\* clock stands still while calls run.
Tick ==
  /\ ~panicked
  /\ ticks < MaxTicks
  /\ sched \in {"seq", "setup", "reg"} => \A t \in Apps : pc[t] = "idle"
  /\ \E d \in Deltas : clock' = clock + d
  /\ ticks' = ticks + 1
  /\ UNCHANGED <<caches1, caches2, cachesMutex1, cachesMutex2, kind, vals, valsLen, size,
                 mem, max, heap, pc, frame, sw, panicked, calls, sweeps, sched>>

\* ------------------------------------------------ NewBytes(size, mb) / New(size, mb)
\* c := &Bytes{vals: make([]*entryBytes, size), size: size, max: megabytes * 1048576}
NewAlloc(t) ==
  /\ CanStart(t)
  /\ Cardinality({c \in CacheIds : kind[c] # "none"}) < CacheLimit
  /\ \E c \in CacheIds, k \in {"Bytes", "Interface"}, mb \in Megabytes :
       /\ kind[c] = "none"
       /\ \A o \in CacheIds : kind[o] = "none" => c <= o
       /\ kind' = [kind EXCEPT ![c] = k]
       /\ valsLen' = [valsLen EXCEPT ![c] = NumSlots]
       /\ size' = [size EXCEPT ![c] = NumSlots]
       /\ max' = [max EXCEPT ![c] =
                    IF k = "Bytes" THEN mb * BytesPerMegabyte ELSE mb * UnitsPerMegabyte]
       /\ frame' = [frame EXCEPT ![t] = [IdleFrame EXCEPT !.op = "New", !.c = c]]
  /\ Goto(t, "new_lock")
  /\ UNCHANGED <<caches1, caches2, cachesMutex1, cachesMutex2, vals, mem, heap, clock,
                 sw, panicked, calls, sweeps, ticks, sched>>

\* cachesMutex1.Lock()
NewLock(t) ==
  /\ Running(t, "new_lock")
  /\ IF kind[frame[t].c] = "Bytes"
     THEN /\ cachesMutex1 = NoThread
          /\ cachesMutex1' = t
          /\ UNCHANGED cachesMutex2
     ELSE /\ cachesMutex2 = NoThread
          /\ cachesMutex2' = t
          /\ UNCHANGED cachesMutex1
  /\ Goto(t, "new_append")
  /\ UNCHANGED <<caches1, caches2, kind, vals, valsLen, size, mem, max, heap, clock,
                 frame, sw, panicked, calls, sweeps, ticks, sched>>

\* caches1 = append(caches1, c)
NewAppend(t) ==
  /\ Running(t, "new_append")
  /\ IF kind[frame[t].c] = "Bytes"
     THEN /\ caches1' = Append(caches1, frame[t].c)
          /\ UNCHANGED caches2
     ELSE /\ caches2' = Append(caches2, frame[t].c)
          /\ UNCHANGED caches1
  /\ Goto(t, "new_unlock")
  /\ UNCHANGED <<cachesMutex1, cachesMutex2, kind, vals, valsLen, size, mem, max, heap,
                 clock, frame, sw, panicked, calls, sweeps, ticks, sched>>

\* cachesMutex1.Unlock(); return c
NewUnlock(t) ==
  /\ Running(t, "new_unlock")
  /\ IF kind[frame[t].c] = "Bytes"
     THEN /\ cachesMutex1' = NoThread
          /\ UNCHANGED cachesMutex2
     ELSE /\ cachesMutex2' = NoThread
          /\ UNCHANGED cachesMutex1
  /\ Goto(t, "ret")
  /\ UNCHANGED <<caches1, caches2, kind, vals, valsLen, size, mem, max, heap, clock,
                 frame, sw, panicked, calls, sweeps, ticks, sched>>

\* ------------------------------------------------------------ the call returns
Return(t) ==
  /\ Running(t, "ret")
  /\ frame' = [frame EXCEPT ![t] = IdleFrame]
  /\ Goto(t, "idle")
  /\ heap' = Collect(heap, vals, frame')
  /\ UNCHANGED <<caches1, caches2, cachesMutex1, cachesMutex2, kind, vals, valsLen, size,
                 mem, max, clock, sw, panicked, calls, sweeps, ticks, sched>>

\* ------------------------------------------------------------ shared pieces
registry == <<caches1, caches2, cachesMutex1, cachesMutex2>>
shape == <<kind, valsLen, size, max>>
book == <<calls, sweeps, ticks, sched>>

\* c.vals[id] indexes out of range: the runtime panics and the process ends.
OutOfRange(c, id) == id < 0 \/ id >= valsLen[c]

Panic == /\ panicked' = TRUE
         /\ UNCHANGED <<registry, shape, vals, mem, heap, clock, pc, frame, sw, book>>

\* The frame a call starts with.
Enter(op, c, id, p, sz) ==
  [IdleFrame EXCEPT !.op = op, !.c = c, !.id = id, !.p = p, !.size = sz,
                    !.pre = Snapshot(c)]

\* The payloads a cache is called with, and the size that goes with one:
\* int64(len(p)) in Bytes, the argument size in Interface.
Payloads(c) == IF kind[c] = "Bytes" THEN BytePayloads ELSE OpaquePayloads

SizeArg(p) == p.len

\* --------------------------------------------------------------- Get(id)
\* if id >= c.size { return nil, false }
GetCall(t) ==
  /\ CanCall(t)
  /\ \E c \in CacheIds, id \in CallIds :
       /\ Usable(c)
       /\ frame' = [frame EXCEPT ![t] = Enter("Get", c, id, NilPayload, 0)]
       /\ Goto(t, IF id >= size[c] THEN "ret" ELSE "get_item")
  /\ calls' = calls + 1
  /\ UNCHANGED <<registry, shape, vals, mem, heap, clock, sw, panicked, sweeps, ticks, sched>>

\* item := c.vals[id]; if item == nil { return nil, false }
GetItem(t) ==
  /\ Running(t, "get_item")
  /\ IF OutOfRange(frame[t].c, frame[t].id)
     THEN Panic
     ELSE /\ frame' = [frame EXCEPT ![t].item = vals[frame[t].c][frame[t].id]]
          /\ Goto(t, IF vals[frame[t].c][frame[t].id] = Nil THEN "ret" ELSE "get_time")
          /\ UNCHANGED <<registry, shape, vals, mem, heap, clock, sw, book, panicked>>

\* tim := time.Now().Unix()
GetTime(t) ==
  /\ Running(t, "get_time")
  /\ frame' = [frame EXCEPT ![t].tim = clock]
  /\ Goto(t, "get_lock")
  /\ UNCHANGED <<registry, shape, vals, mem, heap, clock, sw, book, panicked>>

\* item.mutex.Lock(); item.lastAccess = tim; res := item.data; item.mutex.Unlock()
GetLocked(t) ==
  /\ Running(t, "get_lock")
  /\ heap[frame[t].item].mutex = NoThread
  /\ heap' = [heap EXCEPT ![frame[t].item].lastAccess = frame[t].tim]
  /\ frame' = [frame EXCEPT ![t].res = heap[frame[t].item].data, ![t].found = TRUE]
  /\ Goto(t, "ret")
  /\ UNCHANGED <<registry, shape, vals, mem, clock, sw, book, panicked>>

\* ------------------------------------------------------------ Store(id, p)
\* if id >= c.size { return }
StoreCall(t) ==
  /\ CanCall(t)
  /\ \E c \in CacheIds, id \in CallIds :
       /\ Usable(c)
       /\ \E p \in Payloads(c) :
            frame' = [frame EXCEPT ![t] = Enter("Store", c, id, p, SizeArg(p))]
       /\ Goto(t, IF id >= size[c] THEN "ret" ELSE "store_item")
  /\ calls' = calls + 1
  /\ UNCHANGED <<registry, shape, vals, mem, heap, clock, sw, panicked, sweeps, ticks, sched>>

\* Store without its test of the slot: it overwrites what is there.
StoreItemAlways(t) ==
  /\ Running(t, "store_item")
  /\ IF OutOfRange(frame[t].c, frame[t].id)
     THEN Panic
     ELSE /\ Goto(t, "store_new")
          /\ UNCHANGED <<registry, shape, vals, mem, heap, clock, frame, sw, book, panicked>>

\* item := c.vals[id]; if item == nil { ... }
StoreItem(t) ==
  /\ Running(t, "store_item")
  /\ IF OutOfRange(frame[t].c, frame[t].id)
     THEN Panic
     ELSE /\ Goto(t, IF vals[frame[t].c][frame[t].id] = Nil THEN "store_new" ELSE "ret")
          /\ UNCHANGED <<registry, shape, vals, mem, heap, clock, frame, sw, book, panicked>>

\* item = &entry{data: p, lastAccess: time.Now().Unix()}; c.vals[id] = item
StoreNew(t) ==
  /\ Running(t, "store_new")
  /\ IF OutOfRange(frame[t].c, frame[t].id)
     THEN Panic
     ELSE /\ vals' = [vals EXCEPT ![frame[t].c][frame[t].id] = NewEntryId]
          /\ frame' = [frame EXCEPT ![t].item = NewEntryId]
          /\ heap' = Collect(Put(heap, NewEntryId,
                                 [data |-> frame[t].p, lastAccess |-> clock,
                                  size |-> IF kind[frame[t].c] = "Bytes" THEN 0
                                           ELSE frame[t].size,
                                  mutex |-> NoThread]),
                             vals', frame')
          /\ Goto(t, "store_add")
          /\ UNCHANGED <<registry, shape, mem, clock, sw, book, panicked>>

\* Store without its addition to c.mem.
StoreAddLost(t) ==
  /\ Running(t, "store_add")
  /\ Goto(t, "ret")
  /\ UNCHANGED <<registry, shape, vals, mem, heap, clock, frame, sw, book, panicked>>

\* Store adding without atomicity: it writes back the counter it loaded when the call
\* began, plus the size.
StoreAddStale(t) ==
  /\ Running(t, "store_add")
  /\ mem' = [mem EXCEPT ![frame[t].c] = frame[t].pre.mem + frame[t].size]
  /\ Goto(t, "ret")
  /\ UNCHANGED <<registry, shape, vals, heap, clock, frame, sw, book, panicked>>

\* atomic.AddInt64(&c.mem, int64(len(p)))
StoreAdd(t) ==
  /\ Running(t, "store_add")
  /\ mem' = [mem EXCEPT ![frame[t].c] = @ + frame[t].size]
  /\ Goto(t, "ret")
  /\ UNCHANGED <<registry, shape, vals, heap, clock, frame, sw, book, panicked>>

\* ---------------------------------------------------------- Replace(id, p)
\* if id >= c.size { return }; tim := time.Now().Unix()
ReplaceCall(t) ==
  /\ CanCall(t)
  /\ \E c \in CacheIds, id \in CallIds :
       /\ Usable(c)
       /\ \E p \in Payloads(c) :
            frame' = [frame EXCEPT ![t] =
                        [Enter("Replace", c, id, p, SizeArg(p)) EXCEPT !.tim = clock]]
       /\ Goto(t, IF id >= size[c] THEN "ret" ELSE "replace_item")
  /\ calls' = calls + 1
  /\ UNCHANGED <<registry, shape, vals, mem, heap, clock, sw, panicked, sweeps, ticks, sched>>

\* item := c.vals[id]; if item == nil { ... } else { ... }
ReplaceItem(t) ==
  /\ Running(t, "replace_item")
  /\ IF OutOfRange(frame[t].c, frame[t].id)
     THEN Panic
     ELSE /\ frame' = [frame EXCEPT ![t].item = vals[frame[t].c][frame[t].id]]
          /\ Goto(t, IF vals[frame[t].c][frame[t].id] = Nil THEN "replace_new"
                     ELSE "replace_lock")
          /\ UNCHANGED <<registry, shape, vals, mem, heap, clock, sw, book, panicked>>

\* item = &entry{data: p, lastAccess: tim}; c.vals[id] = item
ReplaceNew(t) ==
  /\ Running(t, "replace_new")
  /\ IF OutOfRange(frame[t].c, frame[t].id)
     THEN Panic
     ELSE /\ vals' = [vals EXCEPT ![frame[t].c][frame[t].id] = NewEntryId]
          /\ frame' = [frame EXCEPT ![t].item = NewEntryId, ![t].memdif = frame[t].size]
          /\ heap' = Collect(Put(heap, NewEntryId,
                                 [data |-> frame[t].p, lastAccess |-> frame[t].tim,
                                  size |-> IF kind[frame[t].c] = "Bytes" THEN 0
                                           ELSE frame[t].size,
                                  mutex |-> NoThread]),
                             vals', frame')
          /\ Goto(t, "replace_add")
          /\ UNCHANGED <<registry, shape, mem, clock, sw, book, panicked>>

\* The entry Replace leaves behind: item.data = p; item.lastAccess = tim. Neither
\* variant writes item.size.
Replaced(e, p, tim) == [e EXCEPT !.data = p, !.lastAccess = tim]

\* item.mutex.Lock(); memdif := len(p) - len(item.data)  (Interface: size -= item.size)
\* item.data = p; item.lastAccess = tim; item.mutex.Unlock()
ReplaceLocked(t) ==
  /\ Running(t, "replace_lock")
  /\ heap[frame[t].item].mutex = NoThread
  /\ frame' = [frame EXCEPT ![t].memdif =
                 frame[t].size - EntrySize(kind[frame[t].c], heap[frame[t].item])]
  /\ heap' = [heap EXCEPT ![frame[t].item] = Replaced(@, frame[t].p, frame[t].tim)]
  /\ Goto(t, "replace_add")
  /\ UNCHANGED <<registry, shape, vals, mem, clock, sw, book, panicked>>

\* atomic.AddInt64(&c.mem, int64(memdif))
ReplaceAdd(t) ==
  /\ Running(t, "replace_add")
  /\ mem' = [mem EXCEPT ![frame[t].c] = @ + frame[t].memdif]
  /\ Goto(t, "ret")
  /\ UNCHANGED <<registry, shape, vals, heap, clock, frame, sw, book, panicked>>

\* -------------------------------------------------------------- Remove(id)
\* if id >= c.size { return }
RemoveCall(t) ==
  /\ CanCall(t)
  /\ \E c \in CacheIds, id \in CallIds :
       /\ Usable(c)
       /\ frame' = [frame EXCEPT ![t] = Enter("Remove", c, id, NilPayload, 0)]
       /\ Goto(t, IF id >= size[c] THEN "ret" ELSE "remove_clear")
  /\ calls' = calls + 1
  /\ UNCHANGED <<registry, shape, vals, mem, heap, clock, sw, panicked, sweeps, ticks, sched>>

\* What Remove does to c.mem: nothing, the counter is not touched.
RemoveMem(m, sz) == m

\* c.vals[id] = false: the slot is cleared, without the entry's lock
RemoveClear(t) ==
  /\ Running(t, "remove_clear")
  /\ IF OutOfRange(frame[t].c, frame[t].id)
     THEN Panic
     ELSE /\ vals' = [vals EXCEPT ![frame[t].c][frame[t].id] = Nil]
          /\ mem' = [mem EXCEPT ![frame[t].c] =
                       RemoveMem(@, SlotVal(frame[t].c, frame[t].id).size)]
          /\ heap' = Collect(heap, vals', frame)
          /\ Goto(t, "ret")
          /\ UNCHANGED <<registry, shape, clock, frame, sw, book, panicked>>

\* ------------------------------------------------------------------ Close()
\* Close without its first assignment: c.size stays.
CloseSizeKept(t) ==
  /\ CanCall(t)
  /\ \E c \in CacheIds :
       /\ Usable(c)
       /\ frame' = [frame EXCEPT ![t] = Enter("Close", c, 0, NilPayload, 0)]
  /\ Goto(t, "close_vals")
  /\ calls' = calls + 1
  /\ UNCHANGED <<registry, shape, vals, mem, heap, clock, sw, panicked, sweeps, ticks, sched>>

\* c.size = 0
CloseSize(t) ==
  /\ CanCall(t)
  /\ \E c \in CacheIds :
       /\ Usable(c)
       /\ frame' = [frame EXCEPT ![t] = Enter("Close", c, 0, NilPayload, 0)]
       /\ size' = [size EXCEPT ![c] = 0]
  /\ Goto(t, "close_vals")
  /\ calls' = calls + 1
  /\ UNCHANGED <<registry, kind, valsLen, max, vals, mem, heap, clock, sw,
                 panicked, sweeps, ticks, sched>>

\* c.vals = nil
CloseVals(t) ==
  /\ Running(t, "close_vals")
  /\ valsLen' = [valsLen EXCEPT ![frame[t].c] = 0]
  /\ Goto(t, "close_mem")
  /\ UNCHANGED <<registry, kind, size, max, vals, mem, heap, clock, frame, sw, book, panicked>>

\* Close without its third assignment: c.mem stays.
CloseMemKept(t) ==
  /\ Running(t, "close_mem")
  /\ Goto(t, "close_max")
  /\ UNCHANGED <<registry, shape, vals, mem, heap, clock, frame, sw, book, panicked>>

\* c.mem = 0
CloseMem(t) ==
  /\ Running(t, "close_mem")
  /\ mem' = [mem EXCEPT ![frame[t].c] = 0]
  /\ Goto(t, "close_max")
  /\ UNCHANGED <<registry, shape, vals, heap, clock, frame, sw, book, panicked>>

\* c.max = 0
CloseMax(t) ==
  /\ Running(t, "close_max")
  /\ max' = [max EXCEPT ![frame[t].c] = 0]
  /\ Goto(t, "ret")
  /\ UNCHANGED <<registry, kind, valsLen, size, vals, mem, heap, clock, frame, sw, book, panicked>>

\* -------------------------------------------------------- Purge(olderThan)
\* for i, item := range c.vals: the slice is evaluated once, its elements are read
\* from the backing array as the loop reaches them.
PurgeCall(t) ==
  /\ CanCall(t)
  /\ \E c \in CacheIds, age \in PurgeAges :
       /\ Usable(c)
       /\ frame' = [frame EXCEPT ![t] =
                      [Enter("Purge", c, 0, NilPayload, 0) EXCEPT
                         !.olderThan = clock - age, !.n = valsLen[c]]]
  /\ Goto(t, "purge_item")
  /\ calls' = calls + 1
  /\ UNCHANGED <<registry, shape, vals, mem, heap, clock, sw, panicked, sweeps, ticks, sched>>

\* Where Purge's caller goes on when the loop is over.
PurgeDone(t) == IF t = Cleaner THEN "sw_purged" ELSE "ret"

\* item := c.vals[i]; if item != nil { ... }
PurgeItem(t) ==
  /\ Running(t, "purge_item")
  /\ IF frame[t].i >= frame[t].n
     THEN /\ frame' = [frame EXCEPT ![t].item = Nil]
          /\ Goto(t, PurgeDone(t))
     ELSE IF vals[frame[t].c][frame[t].i] = Nil
          THEN /\ frame' = [frame EXCEPT ![t].item = Nil, ![t].i = @ + 1]
               /\ UNCHANGED pc
          ELSE /\ frame' = [frame EXCEPT ![t].item = vals[frame[t].c][frame[t].i]]
               /\ Goto(t, "purge_lock")
  /\ heap' = Collect(heap, vals, frame')
  /\ UNCHANGED <<registry, shape, vals, mem, clock, sw, book, panicked>>

\* Purge taking the entry accessed at olderThan too.
ExpiredOrEqual(lastAccess, olderThan) == lastAccess <= olderThan

\* if item.lastAccess < olderThan
Expired(lastAccess, olderThan) == lastAccess < olderThan

\* item.mutex.Lock(); if item.lastAccess < olderThan { ... }; item.mutex.Unlock()
PurgeLock(t) ==
  /\ Running(t, "purge_lock")
  /\ heap[frame[t].item].mutex = NoThread
  /\ IF Expired(heap[frame[t].item].lastAccess, frame[t].olderThan)
     THEN /\ heap' = [heap EXCEPT ![frame[t].item].mutex = t]
          /\ Goto(t, "purge_add")
          /\ UNCHANGED frame
     ELSE /\ frame' = [frame EXCEPT ![t].i = @ + 1]
          /\ Goto(t, "purge_item")
          /\ UNCHANGED heap
  /\ UNCHANGED <<registry, shape, vals, mem, clock, sw, book, panicked>>

\* atomic.AddInt64(&c.mem, 0 - int64(len(item.data)))  (Interface: 0 - item.size)
PurgeAdd(t) ==
  /\ Running(t, "purge_add")
  /\ mem' = [mem EXCEPT ![frame[t].c] = @ - EntrySize(kind[frame[t].c], heap[frame[t].item])]
  /\ Goto(t, "purge_clear")
  /\ UNCHANGED <<registry, shape, vals, heap, clock, frame, sw, book, panicked>>

\* c.vals[i] = nil; item.mutex.Unlock()
PurgeClear(t) ==
  /\ Running(t, "purge_clear")
  /\ IF OutOfRange(frame[t].c, frame[t].i)
     THEN Panic
     ELSE /\ vals' = [vals EXCEPT ![frame[t].c][frame[t].i] = Nil]
          /\ frame' = [frame EXCEPT ![t].i = @ + 1]
          /\ heap' = [heap EXCEPT ![frame[t].item].mutex = NoThread]
          /\ Goto(t, "purge_item")
          /\ UNCHANGED <<registry, shape, mem, clock, sw, book, panicked>>

\* ----------------------------------------------------------------- cleaner()
\* A cleaner of two purges only: five days, then everything.
StageAgeCoarse(k) == IF k = 1 THEN FiveDays ELSE 0 - Everything

\* The age the k-th purge of a cache is called with: time.Now().Unix() - 432000,
\* - 86400, - 3600, - 600 and, + 3600.
StageAge(k) ==
  CASE k = 1 -> FiveDays
    [] k = 2 -> OneDay
    [] k = 3 -> OneHour
    [] k = 4 -> TenMinutes
    [] OTHER -> 0 - Everything

LastStage == 5

\* time.Sleep(sleeptime) is over; cachesMutex1.Lock()
CleanerWake ==
  /\ Running(Cleaner, "sleep")
  /\ sweeps < MaxSweeps
  /\ clock - sw.start >= sleeptime
  /\ MayStart(Cleaner)
  /\ sw' = [IdleSw EXCEPT !.reg = 1, !.start = clock]
  /\ sweeps' = sweeps + 1
  /\ Goto(Cleaner, "sw_lock")
  /\ UNCHANGED <<registry, shape, vals, mem, heap, clock, frame, panicked, calls,
                 ticks, sched>>

\* cachesMutex1.Lock()  (second half: cachesMutex2.Lock())
CleanerLock ==
  /\ Running(Cleaner, "sw_lock")
  /\ IF sw.reg = 1
     THEN /\ cachesMutex1 = NoThread
          /\ cachesMutex1' = Cleaner
          /\ UNCHANGED cachesMutex2
     ELSE /\ cachesMutex2 = NoThread
          /\ cachesMutex2' = Cleaner
          /\ UNCHANGED cachesMutex1
  /\ Goto(Cleaner, "sw_copy")
  /\ UNCHANGED <<caches1, caches2, shape, vals, mem, heap, clock, frame, sw, book, panicked>>

\* newCachesSlice1 := caches1
CleanerCopy ==
  /\ Running(Cleaner, "sw_copy")
  /\ sw' = [sw EXCEPT !.snap = IF sw.reg = 1 THEN caches1 ELSE caches2, !.k = 1]
  /\ Goto(Cleaner, "sw_unlock")
  /\ UNCHANGED <<registry, shape, vals, mem, heap, clock, frame, book, panicked>>

\* A cleaner that keeps the registry locked while it goes through its copy.
CleanerUnlockLate ==
  /\ Running(Cleaner, "sw_unlock")
  /\ Goto(Cleaner, "sw_range")
  /\ UNCHANGED <<registry, shape, vals, mem, heap, clock, frame, sw, book, panicked>>

\* cachesMutex1.Unlock()
CleanerUnlock ==
  /\ Running(Cleaner, "sw_unlock")
  /\ IF sw.reg = 1
     THEN /\ cachesMutex1' = NoThread
          /\ UNCHANGED cachesMutex2
     ELSE /\ cachesMutex2' = NoThread
          /\ UNCHANGED cachesMutex1
  /\ Goto(Cleaner, "sw_range")
  /\ UNCHANGED <<caches1, caches2, shape, vals, mem, heap, clock, frame, sw, book, panicked>>

\* for _, c := range newCachesSlice1 { ... }; after the second loop, sleep again
CleanerRange ==
  /\ Running(Cleaner, "sw_range")
  /\ IF sw.k <= Len(sw.snap)
     THEN /\ sw' = [sw EXCEPT !.stage = 1, !.over = FALSE, !.pre = Snapshot(sw.snap[sw.k])]
          /\ Goto(Cleaner, "sw_mem")
     ELSE IF sw.reg = 1
          THEN /\ sw' = [sw EXCEPT !.reg = 2, !.snap = <<>>, !.k = 0, !.pre = NoSnapshot]
               /\ Goto(Cleaner, "sw_lock")
          ELSE /\ sw' = [IdleSw EXCEPT !.start = clock]
               /\ Goto(Cleaner, "sleep")
  /\ UNCHANGED <<registry, shape, vals, mem, heap, clock, frame, book, panicked>>

\* atomic.LoadInt64(&c.mem)
CleanerLoadMem ==
  /\ Running(Cleaner, "sw_mem")
  /\ sw' = [sw EXCEPT !.m = mem[sw.snap[sw.k]]]
  /\ Goto(Cleaner, "sw_max")
  /\ UNCHANGED <<registry, shape, vals, mem, heap, clock, frame, book, panicked>>

\* A cleaner that purges at every stage without comparing c.mem with c.max.
CleanerLoadMaxAlways ==
  /\ Running(Cleaner, "sw_max")
  /\ frame' = [frame EXCEPT ![Cleaner] =
                 [IdleFrame EXCEPT !.op = "Purge", !.c = sw.snap[sw.k],
                                   !.olderThan = clock - StageAge(sw.stage),
                                   !.n = valsLen[sw.snap[sw.k]]]]
  /\ sw' = [sw EXCEPT !.over = TRUE, !.m = 0]
  /\ Goto(Cleaner, "purge_item")
  /\ UNCHANGED <<registry, shape, vals, mem, heap, clock, book, panicked>>

\* if ... > atomic.LoadInt64(&c.max) { c.Purge(time.Now().Unix() - age) } else { continue }
CleanerLoadMax ==
  /\ Running(Cleaner, "sw_max")
  /\ IF sw.m > max[sw.snap[sw.k]]
     THEN /\ frame' = [frame EXCEPT ![Cleaner] =
                         [IdleFrame EXCEPT !.op = "Purge", !.c = sw.snap[sw.k],
                                           !.olderThan = clock - StageAge(sw.stage),
                                           !.n = valsLen[sw.snap[sw.k]]]]
          /\ sw' = [sw EXCEPT !.over = TRUE, !.m = 0]
          /\ Goto(Cleaner, "purge_item")
     ELSE /\ sw' = [sw EXCEPT !.m = 0]
          /\ Goto(Cleaner, "sw_next")
          /\ UNCHANGED frame
  /\ UNCHANGED <<registry, shape, vals, mem, heap, clock, book, panicked>>

\* Purge has returned: the next check, or the end of the loop body
CleanerPurged ==
  /\ Running(Cleaner, "sw_purged")
  /\ frame' = [frame EXCEPT ![Cleaner] = IdleFrame]
  /\ IF sw.stage < LastStage
     THEN /\ sw' = [sw EXCEPT !.stage = @ + 1]
          /\ Goto(Cleaner, "sw_mem")
     ELSE /\ Goto(Cleaner, "sw_next")
          /\ UNCHANGED sw
  /\ UNCHANGED <<registry, shape, vals, mem, heap, clock, book, panicked>>

\* the loop goes on to the next cache of the copy
CleanerContinue ==
  /\ Running(Cleaner, "sw_next")
  /\ sw' = [sw EXCEPT !.k = @ + 1, !.stage = 0, !.over = FALSE, !.pre = NoSnapshot]
  /\ Goto(Cleaner, "sw_range")
  /\ UNCHANGED <<registry, shape, vals, mem, heap, clock, frame, book, panicked>>

\* The steps of the application goroutines, and the passing of time.
AppNext ==
  \/ Tick
  \/ \E t \in Apps : NewAlloc(t) \/ NewLock(t) \/ NewAppend(t) \/ NewUnlock(t) \/ Return(t)
  \/ \E t \in Apps : GetCall(t) \/ GetItem(t) \/ GetTime(t) \/ GetLocked(t)
  \/ \E t \in Apps : StoreCall(t) \/ StoreItem(t) \/ StoreNew(t) \/ StoreAdd(t)
  \/ \E t \in Apps : ReplaceCall(t) \/ ReplaceItem(t) \/ ReplaceNew(t) \/ ReplaceLocked(t)
                       \/ ReplaceAdd(t)
  \/ \E t \in Apps : RemoveCall(t) \/ RemoveClear(t)
  \/ \E t \in Apps : CloseSize(t) \/ CloseVals(t) \/ CloseMem(t) \/ CloseMax(t)
  \/ \E t \in Apps : PurgeCall(t) \/ PurgeItem(t) \/ PurgeLock(t) \/ PurgeAdd(t)
                       \/ PurgeClear(t)

\* The steps of the cleaner goroutine.
CleanerStep ==
  \/ CleanerWake \/ CleanerLock \/ CleanerCopy \/ CleanerUnlock \/ CleanerRange
  \/ CleanerLoadMem \/ CleanerLoadMax \/ CleanerPurged \/ CleanerContinue
  \/ PurgeItem(Cleaner) \/ PurgeLock(Cleaner) \/ PurgeAdd(Cleaner) \/ PurgeClear(Cleaner)

Next == AppNext \/ CleanerStep

Spec == Init /\ [][Next]_vars

\* Calls and cleaner rounds one after the other, never overlapping.
SeqInit == Init /\ sched = "seq"

SeqSpec == SeqInit /\ [][Next]_vars

\* Application goroutines racing each other.
RaceInit == Init /\ sched = "conc"

RaceSpec == RaceInit /\ [][AppNext]_vars

\* The steps of goroutine t inside a call it has begun.
Continue(t) ==
  \/ NewLock(t) \/ NewAppend(t) \/ NewUnlock(t) \/ Return(t)
  \/ GetItem(t) \/ GetTime(t) \/ GetLocked(t)
  \/ StoreItem(t) \/ StoreNew(t) \/ StoreAdd(t)
  \/ ReplaceItem(t) \/ ReplaceNew(t) \/ ReplaceLocked(t) \/ ReplaceAdd(t)
  \/ RemoveClear(t)
  \/ CloseVals(t) \/ CloseMem(t) \/ CloseMax(t)
  \/ PurgeItem(t) \/ PurgeLock(t) \/ PurgeAdd(t) \/ PurgeClear(t)

\* The scheduler lets every goroutine that can take a step of its call take one.
Fairness == \A t \in Apps : WF_vars(Continue(t))

\* Application goroutines racing each other under a fair scheduler.
FairRaceSpec == RaceSpec /\ Fairness

\* The cleaner at work while a cache is constructed.
RegInit == Init /\ sched = "reg"

RegSpec == RegInit /\ [][Next]_vars

\* Application goroutines racing each other on a cache that earlier calls have filled.
SetupInit == Init /\ sched = "setup"

SetupSpec == SetupInit /\ [][AppNext]_vars

\* ================================================================ properties
\* Goroutine t's call of op has run to its return and has not yet been taken back.
Returned(t, op) == ~panicked /\ pc[t] = "ret" /\ frame[t].op = op

\* The index lies in [0, size) of the cache the call is made on.
Valid(t) == frame[t].id >= 0 /\ frame[t].id < size[frame[t].c]

\* The slot the call is made on, as it was when the call started and as it is now.
Before(t) == frame[t].pre.slots[frame[t].id]

Now(t) == SlotVal(frame[t].c, frame[t].id)

RECURSIVE SumSizes(_, _)
SumSizes(slots, n) ==
  IF n = 0 THEN 0
  ELSE SumSizes(slots, n - 1) + (IF slots[n - 1].occ THEN slots[n - 1].data.len ELSE 0)

\* The sizes of the payloads the slots of c hold.
LiveSum(c) == SumSizes(Slots(c), NumSlots)

Quiescent == ~panicked /\ \A t \in Threads : pc[t] = IF t = Cleaner THEN "sleep" ELSE "idle"

\* Get answers with what the slot held when it was called: so a Get that follows a
\* call, with nothing in between, answers with what that call left in the slot.
GetReturnsSlot ==
  \A t \in Apps :
    (Returned(t, "Get") /\ Valid(t)) =>
      /\ frame[t].found = Before(t).occ
      /\ frame[t].res = Before(t).data

\* C1: whenever no call is in progress, c.mem is the sum of the sizes of the payloads
\* the slots hold. (Fails: Remove clears the slot and leaves c.mem alone.)
C1_MemIsSumOfEntries ==
  Quiescent => \A c \in CacheIds : kind[c] # "none" => mem[c] = LiveSum(c)

\* C2: two goroutines that both call Store on the same empty slot leave one entry in it
\* and c.mem raised once, by that entry's size. (Fails: both find the slot nil.)
C2_RacingStoresCountOnce ==
  \A t \in Apps : \A u \in Apps \ {t} :
    (/\ Returned(t, "Store") /\ Returned(u, "Store")
     /\ frame[t].c = frame[u].c /\ frame[t].id = frame[u].id
     /\ ~Before(t).occ /\ ~Before(u).occ)
    => /\ Now(t).occ
       /\ mem[frame[t].c] = frame[t].pre.mem + Now(t).data.len

\* C3: Remove of an occupied slot empties it, so that the Get that follows finds nothing,
\* and lowers c.mem by the size of the entry removed; Remove of an empty slot changes
\* nothing. (Fails: c.mem is not lowered.)
C3_RemoveLowersMem ==
  /\ GetReturnsSlot
  /\ \A t \in Apps :
       (Returned(t, "Remove") /\ Valid(t)) =>
         /\ ~Now(t).occ
         /\ mem[frame[t].c] = frame[t].pre.mem - Before(t).data.len
         /\ ~Before(t).occ => Slots(frame[t].c) = frame[t].pre.slots

\* C4: a call with an index outside [0, size) never panics, Get answers (nil, false) and
\* Store, Replace and Remove leave table and counter alone. (Fails: a negative index
\* passes the check id >= c.size and indexes c.vals.)
C4_OutOfRangeIsSilent ==
  \A t \in Apps :
    (frame[t].op \in {"Get", "Store", "Replace", "Remove"} /\ ~Valid(t)) =>
      /\ ~panicked
      /\ frame[t].found = FALSE /\ frame[t].res = NilPayload
      /\ Slots(frame[t].c) = frame[t].pre.slots
      /\ mem[frame[t].c] = frame[t].pre.mem

\* The cleaner is through with a cache of its copy that it found over its budget.
Swept == ~panicked /\ pc[Cleaner] = "sw_next" /\ sw.over

SweptCache == sw.snap[sw.k]

\* C5: when the cleaner is through with a cache it found over budget, and no call ran
\* meanwhile, c.mem <= c.max. (Fails: what Remove and Interface.Replace leave in c.mem
\* no purge takes out.)
C5_SweepBringsMemUnderMax == Swept => mem[SweptCache] <= max[SweptCache]

\* The slots of the swept cache that held an entry when the cleaner reached the cache.
HeldBefore == {i \in InRange : sw.pre.slots[i].occ}

\* The cleaner is through with an over-budget cache that held just two entries, o last
\* accessed before n, and purging o alone was enough: mem - size(o) <= max.
OneEvictionEnough(o, n) ==
  /\ Swept
  /\ HeldBefore = {o, n}
  /\ sw.pre.slots[o].lastAccess < sw.pre.slots[n].lastAccess
  /\ sw.pre.mem - sw.pre.slots[o].size <= sw.pre.max

\* Some purge age lies between the two entries for the whole round: o was idle longer
\* than it when the round began, n is idle no longer than it when the cache is done.
SeparatedByStage(o, n) ==
  \E age \in {FiveDays, OneDay, OneHour, TenMinutes} :
    /\ sw.pre.slots[o].lastAccess < sw.start - age
    /\ sw.pre.slots[n].lastAccess >= clock - age

\* C6 as claimed: whatever the two access times, the entry accessed later is still there
\* when the cleaner is through with the cache. (Fails: two entries both accessed in the
\* last ten minutes outlive the four aged purges together and go together in the fifth.)
C6_MoreRecentSurvives ==
  \A o \in InRange : \A n \in InRange :
    OneEvictionEnough(o, n) => SlotVal(SweptCache, n) = sw.pre.slots[n]

\* C6 as amended: the entry accessed later is still there, untouched, when a purge age
\* separates the two entries.
C6_MoreRecentSurvivesAcrossStage ==
  \A o \in InRange : \A n \in InRange :
    (OneEvictionEnough(o, n) /\ SeparatedByStage(o, n)) =>
      /\ SlotVal(SweptCache, n) = sw.pre.slots[n]
      /\ ~SlotVal(SweptCache, o).occ
      /\ mem[SweptCache] <= max[SweptCache]

C6_Witness ==
  \E o \in InRange : \E n \in InRange :
    /\ OneEvictionEnough(o, n) /\ SeparatedByStage(o, n)
    /\ SlotVal(SweptCache, n).occ /\ ~SlotVal(SweptCache, o).occ

\* C7: a Purge(olderThan) that runs alone empties exactly the slots whose entry has
\* lastAccess < olderThan and leaves every other slot as it was, payload and time.
C7_PurgeClearsExactlyOlder ==
  \A t \in Apps :
    Returned(t, "Purge") =>
      \A i \in InRange :
        SlotVal(frame[t].c, i) =
          IF frame[t].pre.slots[i].occ
               /\ frame[t].pre.slots[i].lastAccess < frame[t].olderThan
          THEN NoSlot ELSE frame[t].pre.slots[i]

\* A Purge has returned that found one entry older than olderThan and one exactly as old.
C7_Witness ==
  \E t \in Apps : \E i \in InRange : \E j \in InRange :
    /\ Returned(t, "Purge")
    /\ frame[t].pre.slots[i].occ /\ frame[t].pre.slots[i].lastAccess < frame[t].olderThan
    /\ frame[t].pre.slots[j].occ /\ frame[t].pre.slots[j].lastAccess = frame[t].olderThan
    /\ ~SlotVal(frame[t].c, i).occ /\ SlotVal(frame[t].c, j).occ

\* C8: Replace with a valid index leaves p in the slot, so that the Get that follows
\* answers (p, true), and on an occupied slot moves c.mem by the size of p less the size
\* of the payload it replaces. (Fails in Interface: item.size keeps the first size.)
C8_ReplaceMovesMemByDifference ==
  /\ GetReturnsSlot
  /\ \A t \in Apps :
       (Returned(t, "Replace") /\ Valid(t)) =>
         /\ Now(t).occ /\ Now(t).data = frame[t].p
         /\ Before(t).occ =>
              mem[frame[t].c] = frame[t].pre.mem + frame[t].p.len - Before(t).data.len

\* C9: a Store on an occupied slot changes nothing at any of its steps: not the entry's
\* payload, size or time, not another slot, not c.mem.
C9_StoreOnOccupiedIsNoOp ==
  \A t \in Apps :
    (~panicked /\ frame[t].op = "Store" /\ Valid(t) /\ Before(t).occ) =>
      /\ Slots(frame[t].c) = frame[t].pre.slots
      /\ mem[frame[t].c] = frame[t].pre.mem

\* A Store of another payload on an occupied slot has returned.
C9_Witness ==
  \E t \in Apps :
    /\ Returned(t, "Store") /\ Valid(t) /\ Before(t).occ
    /\ Before(t).data # frame[t].p

\* C10: a Store on an empty slot of a valid index leaves p in it, so that the Get that
\* follows answers (p, true), and raises c.mem by the size of p.
C10_StoreThenGet ==
  /\ GetReturnsSlot
  /\ \A t \in Apps :
       (Returned(t, "Store") /\ Valid(t) /\ ~Before(t).occ) =>
         /\ Now(t).occ /\ Now(t).data = frame[t].p
         /\ mem[frame[t].c] = frame[t].pre.mem + frame[t].p.len

\* A Get has answered (p, true) from a slot that a Store or Replace had filled.
C10_Witness ==
  \E t \in Apps :
    /\ Returned(t, "Get") /\ Valid(t)
    /\ frame[t].found /\ frame[t].res \in Payloads(frame[t].c)

\* The smaller of two counters.
Least(a, b) == IF a <= b THEN a ELSE b

\* Goroutines t and u have both returned from a Store, on two different empty slots of
\* one cache.
StoredApart(t, u) ==
  /\ t # u
  /\ Returned(t, "Store") /\ Returned(u, "Store")
  /\ frame[t].c = frame[u].c /\ frame[t].id # frame[u].id
  /\ Valid(t) /\ Valid(u)
  /\ ~Before(t).occ /\ ~Before(u).occ

\* C11: goroutines that call Store concurrently on different empty slots of one cache all
\* install their payload, and when all have returned c.mem has grown by the sum of the
\* sizes, whatever the interleaving.
C11_DistinctStoresAllCount ==
  \A t \in Apps : \A u \in Apps :
    StoredApart(t, u) =>
      /\ Now(t).occ /\ Now(t).data = frame[t].p
      /\ Now(u).occ /\ Now(u).data = frame[u].p
      /\ mem[frame[t].c] =
           Least(frame[t].pre.mem, frame[u].pre.mem) + frame[t].p.len + frame[u].p.len

\* Two Stores on different slots have returned that both began before either had added
\* to c.mem.
C11_Witness ==
  \E t \in Apps : \E u \in Apps :
    /\ StoredApart(t, u)
    /\ frame[t].pre.mem = frame[u].pre.mem
    /\ ~frame[t].pre.slots[frame[u].id].occ /\ ~frame[u].pre.slots[frame[t].id].occ

\* Close has returned on cache c.
Closed(c) ==
  /\ kind[c] # "none"
  /\ valsLen[c] = 0
  /\ \A t \in Apps : (frame[t].op = "Close" /\ frame[t].c = c) => pc[t] = "ret"

\* C12: a Get that is called after Close has returned, with any index >= 0, returns at
\* once with (nil, false), also where the slot held an entry before Close.
C12_GetAfterCloseFindsNothing ==
  \A t \in Apps :
    (frame[t].op = "Get" /\ frame[t].id >= 0 /\ Closed(frame[t].c)) =>
      /\ ~panicked
      /\ pc[t] = "ret"
      /\ ~frame[t].found /\ frame[t].res = NilPayload

\* A Get has returned from a closed cache, for a slot whose entry Close left in the
\* backing array.
C12_Witness ==
  \E t \in Apps :
    /\ Returned(t, "Get") /\ Closed(frame[t].c)
    /\ frame[t].id \in InRange
    /\ vals[frame[t].c][frame[t].id] # Nil
    /\ ~frame[t].found

\* C13: no call with an index of the table panics, whatever runs beside it: a panic
\* happens only to a call with an index outside the table. (Fails: Close sets c.vals = nil
\* after a racing call has passed its check id >= c.size.)
C13_NoPanicInRange ==
  panicked =>
    \E t \in Apps :
      /\ frame[t].op \in {"Get", "Store", "Replace", "Remove"}
      /\ frame[t].id \notin InRange

\* The cleaner calls Purge in this step.
Launch == frame[Cleaner].op # "Purge" /\ frame'[Cleaner].op = "Purge"

\* The ages of the first four stages, as claimed.
ClaimedAges == <<FiveDays, OneDay, OneHour, TenMinutes>>

\* C15: for each cache of its copy the cleaner purges by 5 days, 1 day, 1 hour, 10 minutes
\* and then everything, in this order only; it purges only after it has seen mem > max,
\* goes from one stage to the next only through a finished purge, and leaves the cache
\* for this round as soon as it sees mem <= max.
C15_StagesInOrder ==
  [][/\ Launch =>
          /\ pc[Cleaner] = "sw_max"
          /\ sw.stage \in 1..(Len(ClaimedAges) + 1)
          /\ sw.m > max[SweptCache] /\ mem[SweptCache] > max[SweptCache]
          /\ frame'[Cleaner].c = SweptCache
          /\ IF sw.stage <= Len(ClaimedAges)
             THEN frame'[Cleaner].olderThan = clock - ClaimedAges[sw.stage]
             ELSE frame'[Cleaner].olderThan > clock
          /\ sw.over = (sw.stage > 1)
     /\ (sw'.stage # sw.stage /\ sw'.stage > 1) =>
          /\ pc[Cleaner] = "sw_purged"
          /\ sw'.stage = sw.stage + 1
          /\ sw'.k = sw.k /\ sw'.snap = sw.snap
     /\ (pc[Cleaner] = "sw_max" /\ sw.m <= max[SweptCache]) =>
          /\ ~Launch
          /\ pc'[Cleaner] \in {"sw_max", "sw_next"}
     /\ pc[Cleaner] = "sw_next" => (~Launch /\ pc'[Cleaner] \in {"sw_next", "sw_range"})
    ]_vars

\* The cleaner has purged a cache at least once and now finds it within its budget.
C15_Witness ==
  /\ ~panicked /\ pc[Cleaner] = "sw_max"
  /\ sw.over /\ sw.stage > 1
  /\ sw.m <= max[SweptCache]

\* C17: once Close has returned, the cache stays as Close left it whatever is called on
\* it: no slot holds an entry, c.size, c.mem and c.max are 0, and the cleaner never
\* purges it.
C17_ClosedIsInert ==
  \A c \in CacheIds :
    Closed(c) =>
      /\ \A i \in InRange : ~SlotVal(c, i).occ
      /\ size[c] = 0 /\ mem[c] = 0 /\ max[c] = 0
      /\ ~(frame[Cleaner].op = "Purge" /\ frame[Cleaner].c = c)

\* A Replace has returned from a closed cache whose backing array still holds the entry
\* of the slot it was called on.
C17_Witness ==
  \E t \in Apps :
    /\ Returned(t, "Replace") /\ Closed(frame[t].c)
    /\ frame[t].id \in InRange
    /\ vals[frame[t].c][frame[t].id] # Nil

\* C18: c.mem is never negative. (Fails: a Purge takes item.size out of c.mem, which in an
\* Interface cache is more than Replace left in for the entry; and two racing Purges
\* take one entry out twice.)
C18_MemNeverNegative == \A c \in CacheIds : mem[c] >= 0

\* C20: an access that has returned keeps its entry safe from a Purge(olderThan) with
\* olderThan no later than the return, for which the time an entry records must never go
\* back. Checked here: no step lowers the lastAccess of an entry. (Fails: Get and Replace
\* read the clock before they take the entry's lock, and write that earlier time over a
\* later one.)
C20_LastAccessNeverDecreases ==
  [][\A e \in (DOMAIN heap) \cap (DOMAIN heap') :
       heap'[e].lastAccess >= heap[e].lastAccess]_vars

\* ---------------------------------------------- calls run one after the other
\* The clock values a call can read.
Times == {n * d : n \in 0..MaxTicks, d \in Deltas}

\* What Store and Replace put into an empty slot, and what it adds to c.mem.
Created(s, f, tim) ==
  [s EXCEPT !.mem = @ + f.size,
            !.slots[f.id] = [occ |-> TRUE, data |-> f.p, lastAccess |-> tim,
                             size |-> f.size]]

\* What one run of Purge(olderThan) takes out of c.mem: the sizes of the entries of
\* slots 0..n-1 last accessed before olderThan.
RECURSIVE PurgedSize(_, _, _)
PurgedSize(slots, olderThan, n) ==
  IF n = 0 THEN 0
  ELSE PurgedSize(slots, olderThan, n - 1)
         + (IF slots[n - 1].occ /\ Expired(slots[n - 1].lastAccess, olderThan)
            THEN slots[n - 1].size ELSE 0)

\* Table and counter after the call of frame f has run alone, from table and counter s,
\* in a cache of kind k, reading tim from the clock.
ApplyCall(k, s, f, tim) ==
  CASE f.op = "Get" ->
         IF s.slots[f.id].occ THEN [s EXCEPT !.slots[f.id].lastAccess = tim] ELSE s
    [] f.op = "Store" ->
         IF s.slots[f.id].occ THEN s ELSE Created(s, f, tim)
    [] f.op = "Replace" ->
         IF s.slots[f.id].occ
         THEN [s EXCEPT !.mem = @ + f.size - s.slots[f.id].size,
                        !.slots[f.id] =
                           [occ |-> TRUE, data |-> f.p, lastAccess |-> tim,
                            size |-> IF k = "Bytes" THEN f.size ELSE s.slots[f.id].size]]
         ELSE Created(s, f, tim)
    [] f.op = "Remove" ->
         [s EXCEPT !.mem = RemoveMem(@, s.slots[f.id].size), !.slots[f.id] = NoSlot]
    [] f.op = "Purge" ->
         [s EXCEPT !.mem = @ - PurgedSize(s.slots, f.olderThan, NumSlots),
                   !.slots = [i \in DOMAIN s.slots |->
                                IF s.slots[i].occ
                                     /\ Expired(s.slots[i].lastAccess, f.olderThan)
                                THEN NoSlot ELSE s.slots[i]]]
    [] OTHER -> s

\* What C14 compares: the counter and, of every slot, whether it is occupied, its
\* payload and its size.
Content(s) ==
  [mem |-> s.mem,
   slots |-> [i \in DOMAIN s.slots |->
                [occ |-> s.slots[i].occ, data |-> s.slots[i].data, size |-> s.slots[i].size]]]

\* Goroutines t and u have both returned from calls on one slot of one cache (a Purge is
\* a call on every slot) that began with the same table and counter.
RacedOnSlot(t, u) ==
  /\ t # u /\ ~panicked
  /\ pc[t] = "ret" /\ pc[u] = "ret"
  /\ frame[t].op \in {"Get", "Store", "Replace", "Remove", "Purge"}
  /\ frame[u].op \in {"Get", "Store", "Replace", "Remove", "Purge"}
  /\ frame[t].c = frame[u].c
  /\ (frame[t].id = frame[u].id \/ frame[t].op = "Purge" \/ frame[u].op = "Purge")
  /\ Valid(t) /\ Valid(u)
  /\ frame[t].pre = frame[u].pre

\* Table and counter are what t's call followed by u's call would have left.
InOrder(t, u) ==
  \E t1 \in Times : \E t2 \in Times :
    /\ t1 <= t2
    /\ Content(Snapshot(frame[t].c)) =
         Content(ApplyCall(kind[frame[t].c],
                           ApplyCall(kind[frame[t].c], frame[t].pre, frame[t], t1),
                           frame[u], t2))

\* C14: two calls among Get, Store, Replace, Remove and Purge that run concurrently on one
\* slot leave the slot and c.mem as one of the two orders of the calls would. (Fails: the
\* test of the slot, the write of the slot and the addition to c.mem are separate steps,
\* and only the entry is locked, not the slot.)
C14_SameSlotCallsSerialize ==
  \A t \in Apps : \A u \in Apps :
    RacedOnSlot(t, u) => (InOrder(t, u) \/ InOrder(u, t))

\* The first case C14 names: a Replace of an occupied slot racing a Purge. (Fails too:
\* Purge clears the slot between Replace's read of c.vals[id] and its lock of the entry,
\* and Replace then adds its difference for an entry no slot holds.)
ReplaceRacingPurgeSerialize ==
  \A t \in Apps : \A u \in Apps :
    (RacedOnSlot(t, u) /\ frame[t].op = "Replace" /\ frame[u].op = "Purge" /\ Before(t).occ)
      => (InOrder(t, u) \/ InOrder(u, t))

\* The second case C14 names: two racing Purges. (Fails too: the second has read the entry
\* from the slot before the first clears it, locks it afterwards and takes its size out
\* of c.mem again.)
RacingPurgesSerialize ==
  \A t \in Apps : \A u \in Apps :
    (RacedOnSlot(t, u) /\ frame[t].op = "Purge" /\ frame[u].op = "Purge")
      => (InOrder(t, u) \/ InOrder(u, t))

\* The registry lock a constructor call takes: cachesMutex1 in NewBytes, cachesMutex2 in New.
RegistryMutex(t) == IF kind[frame[t].c] = "Bytes" THEN cachesMutex1 ELSE cachesMutex2

\* The cleaner goes through its copy of a registry, or is inside a Purge.
Sweeping ==
  pc[Cleaner] \in {"sw_range", "sw_mem", "sw_max", "sw_purged", "sw_next",
                   "purge_item", "purge_lock", "purge_add", "purge_clear"}

\* C16: the cleaner holds a registry lock only from its Lock to its Unlock around the copy
\* of the list, never while it goes through the copy or purges; so a constructor that
\* comes to its Lock while the cleaner sweeps finds the lock free.
C16_RegistryLockOnlyForCopy ==
  /\ cachesMutex1 = Cleaner => (pc[Cleaner] \in {"sw_copy", "sw_unlock"} /\ sw.reg = 1)
  /\ cachesMutex2 = Cleaner => (pc[Cleaner] \in {"sw_copy", "sw_unlock"} /\ sw.reg = 2)
  /\ Sweeping => (cachesMutex1 # Cleaner /\ cachesMutex2 # Cleaner)
  /\ \A t \in Apps :
       (~panicked /\ pc[t] = "new_lock" /\ Sweeping) =>
         (RegistryMutex(t) = NoThread /\ ENABLED NewLock(t))

\* A constructor stands at its Lock while the cleaner, inside a Purge, holds an entry's
\* lock.
C16_Witness ==
  \E t \in Apps :
    /\ ~panicked /\ pc[t] = "new_lock"
    /\ pc[Cleaner] \in {"purge_add", "purge_clear"}
    /\ heap[frame[Cleaner].item].mutex = Cleaner

\* The locks goroutine t holds: registry locks and locks of entries.
HeldLocks(t) ==
  {m \in {"cachesMutex1"} : cachesMutex1 = t} \cup {m \in {"cachesMutex2"} : cachesMutex2 = t}
    \cup {e \in DOMAIN heap : heap[e].mutex = t}

\* No goroutine holds two locks, and none holds a lock when its call has returned.
LockDiscipline ==
  \A t \in Threads :
    /\ Cardinality(HeldLocks(t)) <= 1
    /\ pc[t] \in {"idle", "ret", "sleep"} => HeldLocks(t) = {}

\* C19: no goroutine holds more than one lock, a returned call holds none, and with a
\* fair scheduler every call that has begun returns. (Fails: a call that panics never
\* returns.)
C19_EveryCallReturns ==
  /\ []LockDiscipline
  /\ \A t \in Apps : (pc[t] # "idle") ~> (pc[t] = "idle")
====
